---- MODULE Spec2Model ----
(***************************************************************************)
(* A model of IniParser (src/IniParser.cpp): the tokenizer (reserved,      *)
(* trimWS, getToken, the loop of read), the grammar state machine (isIdent,*)
(* parse) and the public operations read(), clear() and operator[].        *)
(*                                                                         *)
(* A character is a one-element string; LF, CR and TAB name the control    *)
(* characters.  A std::string is a sequence of characters, so a token is a *)
(* sequence of characters and the token buffer a sequence of tokens.       *)
(***************************************************************************)
EXTENDS Integers, Sequences, FiniteSets, TLC

LF  == "LF"
CR  == "CR"
TAB == "TAB"
SP  == " "

(***************************************************************************)
(* Bounds of the model.                                                    *)
(***************************************************************************)
\* operations performed on one parser object in the many-operation model
MaxOps == 3
\* pieces of text a file is made of in the one-read model
MaxPieces == 3
\* the longest file of the token-loop model, in characters
MaxChars == 3
\* the cap on the getToken() calls of one read() in the token-loop model
MaxCalls == 6

----------------------------------------------------------------------------
(***************************************************************************)
(* Tokenizer.                                                              *)
(***************************************************************************)

\* bool IniParser::reserved(unsigned char c)
reserved(c) == c \in {"[", "]", "=", ";", LF}

\* the set " \t\n\r" of trimWS
Whitespace == {SP, TAB, LF, CR}

\* str.find_first_not_of(" \t\n\r"): the first index (1-based) of a
\* character outside the set, 0 for npos
FindFirstNotOf(str) ==
    IF \E p \in 1..Len(str) : str[p] \notin Whitespace
    THEN CHOOSE p \in 1..Len(str) :
            /\ str[p] \notin Whitespace
            /\ \A q \in 1..(p-1) : str[q] \in Whitespace
    ELSE 0

\* str.find_last_not_of(" \t\n\r"), 0 for npos
FindLastNotOf(str) ==
    IF \E p \in 1..Len(str) : str[p] \notin Whitespace
    THEN CHOOSE p \in 1..Len(str) :
            /\ str[p] \notin Whitespace
            /\ \A q \in (p+1)..Len(str) : str[q] \in Whitespace
    ELSE 0

\* trimWS with the fault of removing the leading whitespace only
trimWSKeepsTrailing(str) ==
    LET first == FindFirstNotOf(str)
    IN  IF first = 0 THEN <<>> ELSE SubSeq(str, first, Len(str))

\* std::string IniParser::trimWS(std::string& str)
trimWS(str) ==
    LET first == FindFirstNotOf(str)
        last  == FindLastNotOf(str)
    IN  IF first = 0 \/ last = 0 THEN <<>>
        ELSE SubSeq(str, first, last)

\* The value getToken returns at end of stream, and the value read()
\* compares each token with: the literal "\0" converted to std::string, or
\* compared as a C string, is the string of length 0.
EOFSentinel == <<>>

\* The inner loop of getToken: from position pos (1-based, not reserved,
\* not past the end) take characters while the peeked one is not reserved
\* and the stream is not at its end.  The position after the run.
RECURSIVE RunEnd(_, _)
RunEnd(s, pos) ==
    IF pos > Len(s) THEN pos
    ELSE IF reserved(s[pos]) THEN pos
    ELSE RunEnd(s, pos + 1)

\* Finish with the fault of trimming the newline token as well
FinishAlwaysTrims(t) == trimWS(t)

\* What getToken does to a token before returning it: a newline is returned
\* as it is, everything else goes through trimWS.
Finish(t) == IF t = <<LF>> THEN t ELSE trimWS(t)

\* getToken with the fault of peeking at a reserved character without
\* taking it from the stream
getTokenPeeksOnly(s, pos) ==
    IF pos > Len(s)
    THEN [token |-> EOFSentinel, pos |-> pos, eof |-> TRUE]
    ELSE IF reserved(s[pos])
    THEN [token |-> Finish(<<s[pos]>>), pos |-> pos, eof |-> FALSE]
    ELSE LET e == RunEnd(s, pos)
         IN  [token |-> Finish(SubSeq(s, pos, e - 1)), pos |-> e,
              eof |-> e > Len(s)]

\* std::string IniParser::getToken() on the stream s at position pos:
\* the token returned, the position after the call and whether eofbit is
\* set when it returns (peek() at the end of the stream sets it).
getToken(s, pos) ==
    IF pos > Len(s)
    THEN [token |-> EOFSentinel, pos |-> pos, eof |-> TRUE]
    ELSE IF reserved(s[pos])
    THEN [token |-> Finish(<<s[pos]>>), pos |-> pos + 1, eof |-> FALSE]
    ELSE LET e == RunEnd(s, pos)
         IN  [token |-> Finish(SubSeq(s, pos, e - 1)), pos |-> e,
              eof |-> e > Len(s)]

\* read(): if( !(token == "\0") ) tokens.push_back(token)
Push(toks, token) == IF token # EOFSentinel THEN Append(toks, token) ELSE toks

\* The loop of read(): while( !in.eof() ) { token = getToken(); push }.
\* toks is the token buffer, calls the number of getToken calls made.
RECURSIVE ReadLoop(_, _, _, _, _)
ReadLoop(s, pos, eof, toks, calls) ==
    IF eof THEN [tokens |-> toks, calls |-> calls, pos |-> pos]
    ELSE LET g == getToken(s, pos)
         IN  ReadLoop(s, g.pos, g.eof, Push(toks, g.token), calls + 1)

\* The tokens read() appends for a file with contents s.
Tokenize(s, toks) == ReadLoop(s, 1, FALSE, toks, 0).tokens

----------------------------------------------------------------------------
(***************************************************************************)
(* The configuration store: std::map<string, std::map<string, string>>,    *)
(* a function from section names to functions from keys to values.         *)
(***************************************************************************)

EmptyMap == [x \in {} |-> x]

MapPut(f, k, v) == [x \in (DOMAIN f) \cup {k} |-> IF x = k THEN v ELSE f[x]]

\* m[section]: the inner map, a new empty one when the section is absent
Inner(m, section) == IF section \in DOMAIN m THEN m[section] ELSE EmptyMap

\* Assign with the fault of keeping the value of a key that is present
\* (insert() in place of operator[] and assignment)
AssignKeepsFirst(m, section, key, value) ==
    IF section \in DOMAIN m /\ key \in DOMAIN m[section] THEN m
    ELSE MapPut(m, section, MapPut(Inner(m, section), key, value))

\* internal[section][key] = value (operator[] of both maps inserts what
\* is absent, the assignment overwrites what is present)
Assign(m, section, key, value) ==
    MapPut(m, section, MapPut(Inner(m, section), key, value))

\* Vivify with the fault of storing the default value over a value that is
\* present
VivifyResets(m, section, key) == Assign(m, section, key, <<>>)

\* internal[section][key] read through operator[]: both levels insert a
\* default entry when absent
Vivify(m, section, key) ==
    IF section \in DOMAIN m /\ key \in DOMAIN m[section] THEN m
    ELSE Assign(m, section, key, <<>>)

----------------------------------------------------------------------------
(***************************************************************************)
(* Grammar parser.  Token indices are those of the code (0-based).         *)
(***************************************************************************)

\* tokens[i]
At(toks, i) == toks[i + 1]

\* isIdent with the fault of taking every token for an identifier
isIdentAny(str) == TRUE

\* bool IniParser::isIdent(std::string &str)
isIdent(str) == ~(Len(str) = 1 /\ reserved(str[1]))

\* the section name committed on "]": tokens[i-1]
SectionAt(toks, i) == At(toks, i - 1)

\* KeyAt with the fault of taking the token before the current one
KeyAtPrevious(toks, i) == At(toks, i - 1)

\* the key of the assignment committed in state 4: tokens[i-2]
KeyAt(toks, i) == At(toks, i - 2)

\* LineAfterEmptyValue with the fault of leaving the counter as it is
LineNotCounted(lineNumber) == lineNumber

\* lineNumber++ on the newline that ends an empty-valued assignment
LineAfterEmptyValue(lineNumber) == lineNumber + 1

\* lineNumber++ on a newline in state 0
LineAfterBlank(lineNumber) == lineNumber + 1

\* the offending token as the message shows it
Render(token) == IF token # <<LF>> THEN token ELSE <<"L", "F">>

\* The message built in the else branch of the loop, as its parts: the line
\* number, the previous token (nothing when i = 0), the offending token and
\* the next token (nothing when i is the last index), then "...".
LoopMessage(toks, i, lineNumber) ==
    [line |-> lineNumber,
     prev |-> IF i - 1 >= 0 THEN At(toks, i - 1) ELSE <<>>,
     tok  |-> Render(At(toks, i)),
     next |-> IF i + 1 < Len(toks) THEN At(toks, i + 1) ELSE <<>>,
     tail |-> "...",
     index |-> i]

\* The message built after the loop when state != 0.  tokens[i] is read with
\* i = tokens.size(): the value read is outside the vector, so it is given
\* as the parameter beyond.
EndMessage(toks, i, lineNumber, beyond) ==
    [line |-> lineNumber,
     prev |-> IF i - 1 >= 0 THEN At(toks, i - 1) ELSE <<>>,
     tok  |-> Render(beyond),
     next |-> <<>>,
     tail |-> "EOF",
     index |-> i]

NoMessage ==
    [line |-> 0, prev |-> <<>>, tok |-> <<>>, next |-> <<>>, tail |-> "",
     index |-> 0]

\* The for loop of parse() from index i on, with the local variables state,
\* curSection and lineNumber and the member internal.  kind is "ok" when
\* the loop ends in state 0, "end" when it ends in another state and
\* "error" when the else branch throws at index i.
RECURSIVE ParseLoop(_, _, _, _, _, _)
ParseLoop(toks, i, state, curSection, store, lineNumber) ==
    IF ~(i < Len(toks))
    THEN [kind |-> IF state # 0 THEN "end" ELSE "ok", i |-> i,
          state |-> state, curSection |-> curSection, internal |-> store,
          lineNumber |-> lineNumber]
    ELSE
    LET token == At(toks, i) IN
    IF state = 0 /\ token = <<"[">>
    THEN ParseLoop(toks, i + 1, 1, curSection, store, lineNumber)
    ELSE IF state = 1 /\ isIdent(token)
    THEN ParseLoop(toks, i + 1, 2, curSection, store, lineNumber)
    ELSE IF state = 2 /\ token = <<"]">>
    THEN ParseLoop(toks, i + 1, 0, SectionAt(toks, i), store, lineNumber)
    ELSE IF state = 0 /\ isIdent(token)
    THEN ParseLoop(toks, i + 1, 3, curSection, store, lineNumber)
    ELSE IF state = 3 /\ token = <<"=">>
    THEN ParseLoop(toks, i + 1, 4, curSection, store, lineNumber)
    ELSE IF state = 4 /\ isIdent(token)
    THEN ParseLoop(toks, i + 1, 0, curSection,
                   Assign(store, curSection, KeyAt(toks, i), token),
                   lineNumber)
    ELSE IF state = 4 /\ token = <<LF>>
    THEN ParseLoop(toks, i + 1, 0, curSection,
                   Assign(store, curSection, KeyAt(toks, i), <<>>),
                   LineAfterEmptyValue(lineNumber))
    ELSE IF state = 0 /\ token = <<";">>
    THEN ParseLoop(toks, i + 1, 5, curSection, store, lineNumber)
    ELSE IF state = 5 /\ isIdent(token)
    THEN ParseLoop(toks, i + 1, 0, curSection, store, lineNumber)
    ELSE IF state = 0 /\ token = <<LF>>
    THEN ParseLoop(toks, i + 1, 0, curSection, store,
                   LineAfterBlank(lineNumber))
    ELSE [kind |-> "error", i |-> i, state |-> state,
          curSection |-> curSection, internal |-> store,
          lineNumber |-> lineNumber]

\* parse with the fault of naming the section of the keys that come before
\* any header
parseNamesDefault(toks, store) ==
    ParseLoop(toks, 0, 0, <<"d", "e", "f", "a", "u", "l", "t">>, store, 1)

\* parse with the fault of creating the entry of the section "" before the
\* loop (internal[curSection] evaluated once at the start)
parseTouchesSection(toks, store) ==
    ParseLoop(toks, 0, 0, <<>>, MapPut(store, <<>>, Inner(store, <<>>)), 1)

\* void IniParser::parse(): curSection = "", state = 0, i = 0,
\* lineNumber = 1, over the whole token buffer
parse(toks, store) == ParseLoop(toks, 0, 0, <<>>, store, 1)

\* The indices at which one run of parse() over toks reads the token buffer:
\* tokens[i] at each turn of the loop, tokens[i-1] on "]" in state 2,
\* tokens[i-2] on the two commits of state 4, tokens[i-1] and tokens[i+1]
\* (each behind its test) in the else branch, and tokens[i-1] (behind its
\* test) and tokens[i] after the loop when state != 0.
IndicesRead(toks) ==
    LET r == parse(toks, EmptyMap)
        stateAt(j) == parse(SubSeq(toks, 1, j), EmptyMap).state
        turn(j) == {j} \cup (IF stateAt(j) = 2 THEN {j - 1}
                             ELSE IF stateAt(j) = 4 THEN {j - 2}
                             ELSE {})
        before == IF r.i - 1 >= 0 THEN {r.i - 1} ELSE {}
    IN  UNION {turn(j) : j \in 0..(r.i - 1)}
        \cup (IF r.kind = "error"
              THEN {r.i} \cup before
                   \cup (IF r.i + 1 < Len(toks) THEN {r.i + 1} ELSE {})
              ELSE IF r.kind = "end" THEN before \cup {r.i}
              ELSE {})

----------------------------------------------------------------------------
(***************************************************************************)
(* The input stream std::ifstream in: whether a file is open and the       *)
(* iostate bits that are set.                                              *)
(***************************************************************************)

ClosedGood == [open |-> FALSE, state |-> {}]

\* in.exceptions(failbit | badbit) installs the mask and calls
\* clear(rdstate()), which throws std::ios_base::failure when a bit of the
\* mask is set in the state
MaskThrows(in) == in.state \cap {"failbit", "badbit"} # {}

\* in.open(fileName) when the file can be opened: clear() on success
OpenOk(in) == [open |-> TRUE, state |-> {}]

\* in.open(fileName) when it cannot: setstate(failbit), which throws under
\* the mask
OpenFailed(in) == [open |-> in.open, state |-> in.state \cup {"failbit"}]

\* peek() at the end of the stream, which ends the loop of read()
AtEof(in) == [open |-> in.open, state |-> in.state \cup {"eofbit"}]

\* in.close(): the state bits stay as they are
Close(in) == [open |-> FALSE, state |-> in.state]

\* StreamAfterRead with the fault of calling parse() before in.close(), so
\* that the stream is still open when parse() throws or returns
StreamLeftOpen(in) == AtEof(OpenOk(in))

\* the stream when read() reaches parse(): opened, read to its end, closed
StreamAfterRead(in) == Close(AtEof(OpenOk(in)))

----------------------------------------------------------------------------
(***************************************************************************)
(* The parser object and the operations on it.                             *)
(*   tokens, internal, in : the members of IniParser                       *)
(*   err  : the parts of the message of the SyntaxError last thrown        *)
(*   hist : the operations performed so far, each with the file contents it*)
(*          was given, how it ended (exc) and the store and the number of  *)
(*          tokens it left                                                 *)
(*   rd   : the read() that is inside its loop, when the model follows it  *)
(*          call by call: the file contents, the position of the stream    *)
(*          in them and the number of getToken() calls made                *)
(***************************************************************************)
VARIABLES tokens, internal, in, err, hist, rd

vars == <<tokens, internal, in, err, hist, rd>>

\* no read() is inside its loop
NotReading == [active |-> FALSE, text |-> <<>>, pos |-> 1, calls |-> 0]

\* present: whether fileName named a readable file when read() was called,
\* file: its contents then
Ev(op, present, file, exc, store, toks, section, key, ret) ==
    [op |-> op, present |-> present, file |-> file, exc |-> exc,
     internal |-> store, ntokens |-> Len(toks), section |-> section,
     key |-> key, ret |-> ret]

Last(h) == h[Len(h)]

\* the process has not been ended by an earlier operation
Alive == IF hist = <<>> THEN TRUE ELSE Last(hist).exc # "crash"

CanAct == Alive /\ Len(hist) < MaxOps

\* What tokens[tokens.size()] can yield when the read does not end the
\* process: storage outside the elements of the vector
Indeterminate == {<<>>, <<"?">>}

\* IniParser(std::string fileName)
Init ==
    /\ tokens = <<>>
    /\ internal = EmptyMap
    /\ in = ClosedGood
    /\ err = NoMessage
    /\ hist = <<>>
    /\ rd = NotReading

\* read() when the stream carries failbit from an earlier failed open:
\* in.exceptions() throws std::ios_base::failure outside the try block,
\* whether or not the file exists by now (present, with contents f)
ReadMaskThrows(present, f) ==
    /\ CanAct
    /\ MaskThrows(in)
    /\ hist' = Append(hist, Ev("read", present, f, "ios_failure", internal,
                               tokens, <<>>, <<>>, <<>>))
    /\ UNCHANGED <<tokens, internal, in, err, rd>>

\* ReadMissing with the fault of emptying the store before the open
ReadMissingClears ==
    /\ CanAct
    /\ ~MaskThrows(in)
    /\ in' = OpenFailed(in)
    /\ internal' = EmptyMap
    /\ hist' = Append(hist, Ev("read", FALSE, <<>>, "FileNotFound", EmptyMap,
                               tokens, <<>>, <<>>, <<>>))
    /\ UNCHANGED <<tokens, err, rd>>

\* read() when the file cannot be opened: FileNotFound
ReadMissing ==
    /\ CanAct
    /\ ~MaskThrows(in)
    /\ in' = OpenFailed(in)
    /\ hist' = Append(hist, Ev("read", FALSE, <<>>, "FileNotFound", internal,
                               tokens, <<>>, <<>>, <<>>))
    /\ UNCHANGED <<tokens, internal, err, rd>>

\* the stream after the first peek() of getToken failed to read: badbit is
\* set, the exception of the mask leaves read() before in.close()
ReadError(stream) == [open |-> stream.open, state |-> {"badbit"}]

\* read() when fileName can be opened but not read (a directory): the first
\* peek() throws std::ios_base::failure, which leaves read()
ReadUnreadable ==
    /\ CanAct
    /\ ~MaskThrows(in)
    /\ in' = ReadError(OpenOk(in))
    /\ hist' = Append(hist, Ev("read", TRUE, <<>>, "ios_failure", internal,
                               tokens, <<>>, <<>>, <<>>))
    /\ UNCHANGED <<tokens, internal, err, rd>>

\* read() of a file with contents f: tokenize onto the token buffer, close,
\* parse the whole buffer
ReadFile(f) ==
    /\ CanAct
    /\ ~MaskThrows(in)
    /\ UNCHANGED rd
    /\ LET toks == Tokenize(f, tokens)
           p    == parse(toks, internal)
       IN  /\ tokens' = toks
           /\ in' = StreamAfterRead(in)
           /\ internal' = p.internal
           /\ \/ /\ p.kind = "ok"
                 /\ err' = err
                 /\ hist' = Append(hist, Ev("read", TRUE, f, "none",
                                            p.internal, toks, <<>>, <<>>, <<>>))
              \/ /\ p.kind = "error"
                 /\ err' = LoopMessage(toks, p.i, p.lineNumber)
                 /\ hist' = Append(hist, Ev("read", TRUE, f, "SyntaxError",
                                            p.internal, toks, <<>>, <<>>,
                                            <<>>))
              \/ /\ p.kind = "end"
                 /\ \E beyond \in Indeterminate :
                        err' = EndMessage(toks, p.i, p.lineNumber, beyond)
                 /\ hist' = Append(hist, Ev("read", TRUE, f, "SyntaxError",
                                            p.internal, toks, <<>>, <<>>,
                                            <<>>))
              \/ /\ p.kind = "end"
                 /\ err' = err
                 /\ hist' = Append(hist, Ev("read", TRUE, f, "crash",
                                            p.internal, toks, <<>>, <<>>, <<>>))

\* clear()
Clear ==
    /\ CanAct
    /\ internal' = EmptyMap
    /\ hist' = Append(hist, Ev("clear", FALSE, <<>>, "none", EmptyMap,
                               tokens, <<>>, <<>>, <<>>))
    /\ UNCHANGED <<tokens, in, err, rd>>

\* parser[section][key]: operator[] of the parser, then of the inner map
Get(section, key) ==
    /\ CanAct
    /\ internal' = Vivify(internal, section, key)
    /\ hist' = Append(hist, Ev("get", FALSE, <<>>, "none", internal',
                               tokens, section, key, internal'[section][key]))
    /\ UNCHANGED <<tokens, in, err, rd>>

\* read() of a file with contents f, up to the loop: the exception mask is
\* set and the file is opened
ReadBegin(f) ==
    /\ hist = <<>>
    /\ ~rd.active
    /\ ~MaskThrows(in)
    /\ in' = OpenOk(in)
    /\ rd' = [active |-> TRUE, text |-> f, pos |-> 1, calls |-> 0]
    /\ UNCHANGED <<tokens, internal, err, hist>>

\* one turn of while( !in.eof() ): a getToken() call and the push_back
TokenStep ==
    /\ rd.active
    /\ "eofbit" \notin in.state
    /\ rd.calls < MaxCalls
    /\ LET g == getToken(rd.text, rd.pos)
       IN  /\ tokens' = Push(tokens, g.token)
           /\ in' = IF g.eof THEN AtEof(in) ELSE in
           /\ rd' = [rd EXCEPT !.pos = g.pos, !.calls = rd.calls + 1]
    /\ UNCHANGED <<internal, err, hist>>

\* read() after its loop: in.close() and parse()
ReadEnd ==
    /\ rd.active
    /\ "eofbit" \in in.state
    /\ in' = Close(in)
    /\ rd' = [rd EXCEPT !.active = FALSE]
    /\ UNCHANGED tokens
    /\ LET p == parse(tokens, internal)
       IN  /\ internal' = p.internal
           /\ \E exc \in {"none", "SyntaxError", "crash"} :
              \E beyond \in Indeterminate :
                 /\ exc = "none" <=> p.kind = "ok"
                 /\ exc = "crash" => p.kind = "end"
                 /\ err' = IF exc = "SyntaxError"
                           THEN IF p.kind = "error"
                                THEN LoopMessage(tokens, p.i, p.lineNumber)
                                ELSE EndMessage(tokens, p.i, p.lineNumber,
                                                beyond)
                           ELSE err
                 /\ hist' = Append(hist, Ev("read", TRUE, rd.text, exc,
                                            p.internal, tokens, <<>>, <<>>,
                                            <<>>))

----------------------------------------------------------------------------
(***************************************************************************)
(* Inputs.                                                                 *)
(***************************************************************************)

\* file contents of the many-operation model
Files ==
    { <<>>,
      <<SP>>,
      <<LF>>,
      <<"=">>,
      <<"a", "=">>,
      <<"a", "=", LF>>,
      <<"a", "=", "b", LF>>,
      <<"[", "b", "]">>,
      <<"[", "b", LF>>,
      <<"a", "=", "b", LF, "[", "b", "]">>,
      <<"[", "b", "]", LF, "a", "=", "a", LF>>,
      <<"a", "=", "b", LF, "]">>,
      <<"]", "a", "=", "b", LF>>,
      <<";", "a", LF, SP, "b", SP, "=", TAB, "a", SP, "b", CR, LF>> }

GetSections == {<<>>, <<"b">>}
GetKeys == {<<"a">>}

\* pieces of text of the one-read model: every character of the alphabet,
\* a key with its "=", a whole assignment and a whole section header
Pieces ==
    { <<"[">>, <<"]">>, <<"=">>, <<";">>, <<LF>>, <<SP>>, <<"a">>, <<"b">>,
      <<"a", "=">>, <<"a", "=", "b", LF>>, <<"[", "b", "]">> }

RECURSIVE Concat(_)
Concat(ps) == IF ps = <<>> THEN <<>> ELSE Head(ps) \o Concat(Tail(ps))

\* file contents of the one-read model
FreshFiles ==
    { Concat(ps) : ps \in UNION { [1..n -> Pieces] : n \in 0..MaxPieces } }

\* the characters of a file
Alphabet == {"[", "]", "=", ";", LF, SP, CR, "a"}

\* file contents of the token-loop model: every text of up to MaxChars
\* characters
ShortFiles == UNION { [1..n -> Alphabet] : n \in 0..MaxChars }

----------------------------------------------------------------------------
(***************************************************************************)
(* Specifications.                                                         *)
(***************************************************************************)

\* any sequence of operations on one parser object
Next ==
    \/ ReadMaskThrows(FALSE, <<>>)
    \/ \E f \in Files : ReadMaskThrows(TRUE, f)
    \/ ReadMissing
    \/ ReadUnreadable
    \/ \E f \in Files : ReadFile(f)
    \/ Clear
    \/ \E s \in GetSections, k \in GetKeys : Get(s, k)

Spec == Init /\ [][Next]_vars

\* one read() by a parser whose token buffer is empty, after at most one
\* access through operator[]
FirstGet(section, key) == hist = <<>> /\ Get(section, key)

NoReadYet == \A n \in 1..Len(hist) : hist[n].op # "read"

FirstRead == NoReadYet /\ \E f \in FreshFiles : ReadFile(f)

NextOneRead ==
    \/ \E s \in GetSections, k \in GetKeys : FirstGet(s, k)
    \/ FirstRead

SpecOneRead == Init /\ [][NextOneRead]_vars

\* one read() by a new parser, followed call by call through its loop.  The
\* program is sequential: a read() that has begun keeps running, so each
\* step that is enabled is taken.
NextTokenLoop ==
    \/ \E f \in ShortFiles : ReadBegin(f)
    \/ TokenStep
    \/ ReadEnd

SpecTokenLoop ==
    /\ Init
    /\ [][NextTokenLoop]_vars
    /\ WF_vars(TokenStep)
    /\ WF_vars(ReadEnd)

----------------------------------------------------------------------------
(***************************************************************************)
(* Definitions the properties are stated with.                             *)
(***************************************************************************)

N == Len(hist)

LastIsRead == N >= 1 /\ hist[N].op = "read"

\* the store before the last operation
StoreBefore == IF N >= 2 THEN hist[N - 1].internal ELSE EmptyMap

Drop(seq, n) == SubSeq(seq, n + 1, Len(seq))

\* The assignments of a token sequence in file order, read construct by
\* construct: a header is "[" name "]", a comment ";" and one token, a
\* blank line a newline, an assignment key "=" and a value or a newline.
\* Each assignment carries the name of the last header completed before it.
\* A construct cut short by the end of the sequence assigns nothing.
RECURSIVE Assignments(_, _)
Assignments(toks, section) ==
    IF toks = <<>> THEN <<>>
    ELSE IF Head(toks) = <<"[">>
    THEN IF Len(toks) < 3 THEN <<>>
         ELSE Assignments(Drop(toks, 3), toks[2])
    ELSE IF Head(toks) = <<";">>
    THEN IF Len(toks) < 2 THEN <<>>
         ELSE Assignments(Drop(toks, 2), section)
    ELSE IF Head(toks) = <<LF>>
    THEN Assignments(Drop(toks, 1), section)
    ELSE IF Len(toks) < 3 THEN <<>>
    ELSE <<[section |-> section, key |-> toks[1],
            value |-> IF toks[3] = <<LF>> THEN <<>> ELSE toks[3]]>>
         \o Assignments(Drop(toks, 3), section)

\* the value of the last assignment to (section, key) in as
LastValue(as, section, key) ==
    LET hits == {n \in 1..Len(as) :
                    as[n].section = section /\ as[n].key = key}
        n == CHOOSE x \in hits : \A y \in hits : y <= x
    IN  as[n].value

\* a store with the assignments of as made in order, the last one winning
RECURSIVE Overlay(_, _)
Overlay(m, as) ==
    IF as = <<>> THEN m
    ELSE LET a == Head(as)
             inner == IF a.section \in DOMAIN m THEN m[a.section]
                      ELSE EmptyMap
             inner2 == [k \in DOMAIN inner \cup {a.key} |->
                          IF k = a.key THEN a.value ELSE inner[k]]
         IN  Overlay([x \in DOMAIN m \cup {a.section} |->
                        IF x = a.section THEN inner2 ELSE m[x]],
                     Tail(as))

\* what get(section, key) returns on the store m
GetValue(m, section, key) == Vivify(m, section, key)[section][key]

\* the store a new parser holds after reading a file with contents f
StoreOfFile(f) == parse(Tokenize(f, <<>>), EmptyMap).internal

\* read() of a new parser accepts a file with contents f
WellFormed(f) == parse(Tokenize(f, <<>>), EmptyMap).kind = "ok"

----------------------------------------------------------------------------
(***************************************************************************)
(* Properties.                                                             *)
(***************************************************************************)

\* C1: after a read() that a parser with an empty token buffer accepts,
\* get(s, k) of every (s, k) assigned in the input returns the value of the
\* last assignment to (s, k) in file order, each assignment belonging to the
\* section of the last header completed before it ("" if none).
C1_LastAssignmentWins ==
    (LastIsRead /\ hist[N].exc = "none") =>
        LET as == Assignments(tokens, <<>>)
        IN  \A n \in 1..Len(as) :
                GetValue(internal, as[n].section, as[n].key)
                    = LastValue(as, as[n].section, as[n].key)

\* C1 witness: an accepted input that assigns one key of one section twice,
\* with two different values
C1_Witness ==
    /\ LastIsRead /\ hist[N].exc = "none"
    /\ LET as == Assignments(tokens, <<>>)
       IN  \E n, m \in 1..Len(as) :
               /\ n < m
               /\ as[n].section = as[m].section
               /\ as[n].key = as[m].key
               /\ as[n].value # as[m].value

\* C2: after read() of A, clear() and read() of another well-formed B on the
\* same parser, the store is exactly the store B alone defines.
C2_OnlySecondFile ==
    ( /\ N >= 3
      /\ hist[N - 2].op = "read" /\ hist[N - 2].exc = "none"
      /\ hist[N - 1].op = "clear"
      /\ hist[N].op = "read" /\ hist[N].present
      /\ WellFormed(hist[N].file)
      /\ hist[N].file # hist[N - 2].file )
    => ( /\ hist[N].exc = "none"
         /\ internal = StoreOfFile(hist[N].file) )

\* C3: read(), clear() and read() again of the same unchanged well-formed
\* file leave the store the first read() left.
C3_RereadSameStore ==
    ( /\ N >= 3
      /\ hist[N - 2].op = "read" /\ hist[N - 2].exc = "none"
      /\ hist[N - 1].op = "clear"
      /\ hist[N].op = "read" /\ hist[N].present
      /\ hist[N].file = hist[N - 2].file )
    => ( /\ hist[N].exc = "none"
         /\ internal = hist[N - 2].internal )

\* C4: a read() that follows a read() that raised SyntaxError (clear() in
\* between or not), the file now being well-formed, raises no SyntaxError
\* and leaves the store holding what the corrected file defines.
C4_RetryAfterSyntaxError ==
    ( /\ N >= 2
      /\ hist[N].op = "read" /\ hist[N].present
      /\ WellFormed(hist[N].file)
      /\ StoreOfFile(hist[N].file) # EmptyMap
      /\ \/ hist[N - 1].op = "read" /\ hist[N - 1].exc = "SyntaxError"
         \/ /\ N >= 3
            /\ hist[N - 1].op = "clear"
            /\ hist[N - 2].op = "read" /\ hist[N - 2].exc = "SyntaxError" )
    => ( /\ hist[N].exc = "none"
         /\ \A s \in DOMAIN StoreOfFile(hist[N].file) :
              /\ s \in DOMAIN internal
              /\ \A k \in DOMAIN StoreOfFile(hist[N].file)[s] :
                   /\ k \in DOMAIN internal[s]
                   /\ internal[s][k] = StoreOfFile(hist[N].file)[s][k] )

\* C5: a read() that follows a read() that raised FileNotFound, the file now
\* existing with well-formed contents, raises nothing and populates the
\* store.
C5_RetryAfterFileNotFound ==
    ( /\ N >= 2
      /\ hist[N - 1].op = "read" /\ hist[N - 1].exc = "FileNotFound"
      /\ hist[N].op = "read" /\ hist[N].present
      /\ WellFormed(hist[N].file)
      /\ StoreOfFile(hist[N].file) # EmptyMap )
    => ( /\ hist[N].exc = "none"
         /\ internal = Overlay(StoreBefore,
                               Assignments(Tokenize(hist[N].file, <<>>),
                                           <<>>)) )


\* C6: a read() that raises FileNotFound leaves the store and the token
\* buffer exactly as they were before the call.
C6_FileNotFoundChangesNothing ==
    [][ (hist' # hist /\ Last(hist').exc = "FileNotFound")
            => (internal' = internal /\ tokens' = tokens) ]_vars

\* C6 witness: FileNotFound raised by a parser that holds entries and tokens
C6_Witness ==
    /\ LastIsRead /\ hist[N].exc = "FileNotFound"
    /\ internal # EmptyMap
    /\ tokens # <<>>

\* the last read() reached the end of the token buffer in a state other
\* than 0
EndsMidConstruct ==
    /\ LastIsRead /\ hist[N].present
    /\ hist[N].exc \in {"SyntaxError", "crash"}
    /\ parse(tokens, StoreBefore).kind = "end"

\* C7: when the tokens end in a state other than 0, read() raises
\* SyntaxError and the context of the error is the last two tokens (those at
\* n-2 and n-1 of n tokens).
C7_EndOfInputContext ==
    EndsMidConstruct =>
        /\ hist[N].exc = "SyntaxError"
        /\ err.tail = "EOF"
        /\ err.prev = (IF Len(tokens) >= 2 THEN tokens[Len(tokens) - 1]
                       ELSE <<>>)
        /\ err.tok = tokens[Len(tokens)]

\* the number of newline tokens among the first i tokens
NewlinesBefore(toks, i) == Cardinality({j \in 1..i : toks[j] = <<LF>>})

\* the last read() raised SyntaxError on an invalid transition
InvalidTransition ==
    LastIsRead /\ hist[N].exc = "SyntaxError" /\ err.tail = "..."

\* C8: for a parser whose token buffer was empty, the line number of a
\* SyntaxError raised on an invalid transition is 1 plus the number of
\* newline tokens before the offending token.
C8_LineNumber ==
    InvalidTransition => err.line = 1 + NewlinesBefore(tokens, err.index)

\* C8 witness: an invalid transition after a newline that ended an
\* empty-valued assignment
C8_Witness ==
    /\ InvalidTransition
    /\ \E j \in 2..err.index : tokens[j] = <<LF>> /\ tokens[j - 1] = <<"=">>

\* C9: when read() raises SyntaxError at token index i, the store is the
\* store before the call with exactly the assignments completed by the
\* tokens before i made in order.
C9_StoreUpToError ==
    (LastIsRead /\ hist[N].exc = "SyntaxError") =>
        internal = Overlay(StoreBefore,
                           Assignments(SubSeq(tokens, 1, err.index), <<>>))

\* C9 witness: an error after a completed assignment and before an "=",
\* raised by a parser whose store was not empty
C9_Witness ==
    /\ InvalidTransition
    /\ StoreBefore # EmptyMap
    /\ Assignments(SubSeq(tokens, 1, err.index), <<>>) # <<>>
    /\ \E j \in (err.index + 2)..Len(tokens) : tokens[j] = <<"=">>

\* the number of maximal runs of non-reserved characters of f that consist
\* of whitespace only and have a reserved character on at least one side
WhitespaceRuns(f) ==
    Cardinality({p \in 1..Len(f) :
        /\ ~reserved(f[p])
        /\ (p = 1 \/ reserved(f[p - 1]))
        /\ \A q \in p..(RunEnd(f, p) - 1) : f[q] \in Whitespace
        /\ (p > 1 \/ RunEnd(f, p) <= Len(f))})

EmptyTokens(toks) == Cardinality({j \in 1..Len(toks) : toks[j] = <<>>})

\* C10: the token sequence parse() consumes holds one empty token for each
\* whitespace-only run between reserved characters (or between one and an
\* end of the input).
C10_EmptyTokenPerRun ==
    (LastIsRead /\ hist[N].present) =>
        EmptyTokens(tokens) = WhitespaceRuns(hist[N].file)

\* the last operation is a read() of a file with contents f by a parser
\* whose token buffer was empty
ReadOf(f) ==
    /\ LastIsRead /\ hist[N].present
    /\ hist[N].file = f
    /\ hist[N].ntokens = Len(Tokenize(f, <<>>))

\* C11: empty identifiers are accepted end to end: "[]" and "[ ]" are read
\* without SyntaxError and make "" the current section, and "=v" followed by
\* a newline is read without SyntaxError and stores v under the empty key.
C11_EmptyIdentifiersAccepted ==
    /\ \A f \in {<<"[", "]">>, <<"[", SP, "]">>} :
          ReadOf(f) =>
              /\ hist[N].exc = "none"
              /\ parse(tokens, StoreBefore).curSection = <<>>
    /\ \A v \in {<<"a">>, <<"b">>} :
          ReadOf(<<"=">> \o v \o <<LF>>) =>
              /\ hist[N].exc = "none"
              /\ GetValue(internal, <<>>, <<>>) = v

\* the last header completed in toks: the token before the last "]", "" when
\* there is none
LastHeader(toks) ==
    LET closes == {j \in 2..Len(toks) : toks[j] = <<"]">>}
    IN  IF closes = {} THEN <<>>
        ELSE toks[(CHOOSE j \in closes : \A x \in closes : x <= j) - 1]

\* the last read() was accepted and its token buffer ends with an
\* assignment: a key, "=" and a value or a newline
EndsWithAssignment ==
    /\ LastIsRead /\ hist[N].exc = "none"
    /\ Len(tokens) >= 3
    /\ tokens[Len(tokens) - 1] = <<"=">>

\* C12: an assignment whose "=" is followed at once by a newline stores ""
\* as the value of its key, an assignment before any completed header is
\* stored under the section "", and "a=", newline read by a new parser
\* leaves exactly {"": {"a": ""}}.
C12_EmptyValueDefaultSection ==
    /\ EndsWithAssignment =>
          LET key == tokens[Len(tokens) - 2]
              section == LastHeader(tokens)
          IN  /\ section \in DOMAIN internal
              /\ key \in DOMAIN internal[section]
              /\ internal[section][key] =
                    (IF tokens[Len(tokens)] = <<LF>> THEN <<>>
                     ELSE tokens[Len(tokens)])
    /\ (N = 1 /\ ReadOf(<<"a", "=", LF>>)) =>
          internal = [s \in {<<>>} |-> [k \in {<<"a">>} |-> <<>>]]

\* C12 witness: a new parser has read "a=", newline
C12_Witness ==
    /\ N = 1 /\ ReadOf(<<"a", "=", LF>>)
    /\ EndsWithAssignment
    /\ LastHeader(tokens) = <<>>
    /\ GetValue(internal, <<>>, <<"a">>) = <<>>

\* the tokens the last read() consumed without error: those before the
\* offending token after an invalid transition, all of them otherwise
Consumed ==
    IF hist[N].exc = "SyntaxError" /\ err.tail = "..."
    THEN SubSeq(tokens, 1, err.index)
    ELSE tokens

\* the keys assigned in section s by the assignments as
KeysAssigned(as, s) == {as[n].key : n \in {m \in 1..Len(as) : as[m].section = s}}

\* C13: the store is changed only by the transitions that leave state 4:
\* after a read() the sections are those of before and those of the
\* completed assignments, the keys of each section those of before and
\* those assigned in it, and every entry that no assignment names is as it
\* was; headers, comments, blank lines, keys and "=" add and change nothing.
C13_OnlyAssignmentsChangeStore ==
    (LastIsRead /\ hist[N].present) =>
        LET as == Assignments(Consumed, <<>>)
            sections == {as[n].section : n \in 1..Len(as)}
        IN  /\ DOMAIN internal = DOMAIN StoreBefore \cup sections
            /\ \A s \in DOMAIN internal :
                  /\ DOMAIN internal[s] =
                        DOMAIN Inner(StoreBefore, s) \cup KeysAssigned(as, s)
                  /\ \A k \in DOMAIN internal[s] \ KeysAssigned(as, s) :
                        internal[s][k] = StoreBefore[s][k]

\* C13 witness: an accepted read() of a header and a comment, with no
\* assignment, by a parser whose store held an entry of another section
C13_Witness ==
    /\ LastIsRead /\ hist[N].exc = "none"
    /\ \E j \in 1..Len(tokens) : tokens[j] = <<"]">>
    /\ \E j \in 1..Len(tokens) : tokens[j] = <<";">>
    /\ Assignments(tokens, <<>>) = <<>>
    /\ StoreBefore # EmptyMap
    /\ LastHeader(tokens) \notin DOMAIN internal
    /\ internal = StoreBefore

\* C14: whenever read() has exited, by normal return, FileNotFound or
\* SyntaxError, the input stream is not open, after every sequence of
\* operations.
C14_StreamClosedAtExit ==
    (LastIsRead /\ hist[N].exc \in {"none", "FileNotFound", "SyntaxError"})
        => ~in.open

\* C14 witness: a second read() on the same parser has exited with
\* SyntaxError after the file was opened and read
C14_Witness ==
    /\ N >= 2
    /\ hist[N - 1].op = "read" /\ hist[N - 1].exc = "none"
    /\ LastIsRead /\ hist[N].exc = "SyntaxError"
    /\ "eofbit" \in in.state
    /\ ~in.open

LastIsGet == N >= 1 /\ hist[N].op = "get"

\* the entry (section, key) is in the store m
Has(m, section, key) == section \in DOMAIN m /\ key \in DOMAIN m[section]

\* C15: get(section, key) never raises; for an absent section or key it
\* returns "" and creates the section entry and the key entry; it leaves
\* every entry that existed before the call unchanged (and returns the value
\* of an entry that existed).
C15_GetCreatesAndKeeps ==
    LastIsGet =>
        LET section == hist[N].section
            key == hist[N].key
        IN  /\ hist[N].exc = "none"
            /\ Has(internal, section, key)
            /\ hist[N].ret = internal[section][key]
            /\ hist[N].ret = (IF Has(StoreBefore, section, key)
                              THEN StoreBefore[section][key] ELSE <<>>)
            /\ DOMAIN internal = DOMAIN StoreBefore \cup {section}
            /\ \A s \in DOMAIN StoreBefore :
                  /\ DOMAIN internal[s] =
                        DOMAIN StoreBefore[s]
                          \cup (IF s = section THEN {key} ELSE {})
                  /\ \A k \in DOMAIN StoreBefore[s] :
                        internal[s][k] = StoreBefore[s][k]

\* C15 witness: get of an absent section on a store that holds a value
C15_Witness ==
    /\ LastIsGet
    /\ hist[N].section \notin DOMAIN StoreBefore
    /\ \E s \in DOMAIN StoreBefore : \E k \in DOMAIN StoreBefore[s] :
          StoreBefore[s][k] # <<>>
    /\ hist[N].ret = <<>>

\* C15 second case reached: get of an entry that holds a value
C15_PresentWitness ==
    /\ LastIsGet
    /\ Has(StoreBefore, hist[N].section, hist[N].key)
    /\ hist[N].ret # <<>>

\* the class of a token in the transition table: a symbol is its own class
Class(token) ==
    IF token \in {<<"[">>, <<"]">>, <<"=">>, <<";">>, <<LF>>}
    THEN token[1] ELSE "identifier"

NoTransition == 0 - 1

\* the transition table: the state after a token of class c in state q, or
\* NoTransition
Table(q, c) ==
    CASE q = 0 /\ c = "[" -> 1
      [] q = 0 /\ c = "identifier" -> 3
      [] q = 0 /\ c = ";" -> 5
      [] q = 0 /\ c = LF -> 0
      [] q = 1 /\ c = "identifier" -> 2
      [] q = 2 /\ c = "]" -> 0
      [] q = 3 /\ c = "=" -> 4
      [] q = 4 /\ c \in {"identifier", LF} -> 0
      [] q = 5 /\ c = "identifier" -> 0
      [] OTHER -> NoTransition

\* the table run over toks from the 0-based index i in state q: the state
\* reached at the end, or the index of the first token without a transition
RECURSIVE TableRun(_, _, _)
TableRun(toks, i, q) ==
    IF i >= Len(toks) THEN [state |-> q, failedAt |-> NoTransition]
    ELSE IF Table(q, Class(At(toks, i))) = NoTransition
         THEN [state |-> q, failedAt |-> i]
         ELSE TableRun(toks, i + 1, Table(q, Class(At(toks, i))))

\* the code's loop and the table agree on the token sequence toks
AgreesWithTable(toks) ==
    LET t == TableRun(toks, 0, 0)
        r == parse(toks, EmptyMap)
    IN  IF t.failedAt = NoTransition
        THEN r.kind # "error" /\ r.state = t.state /\ r.i = Len(toks)
        ELSE r.kind = "error" /\ r.i = t.failedAt /\ r.state = t.state

\* C16: on the tokens of a file and on every prefix of them, the state the
\* if/else chain of parse() reaches is the state the transition table
\* reaches, and parse() raises SyntaxError in the loop exactly at the first
\* token for which the table has no transition.
C16_ParseFollowsTable ==
    (LastIsRead /\ hist[N].present /\ hist[N].exc # "ios_failure") =>
        /\ \A k \in 0..Len(tokens) : AgreesWithTable(SubSeq(tokens, 1, k))
        /\ LET t == TableRun(tokens, 0, 0)
           IN  IF t.failedAt # NoTransition
               THEN /\ hist[N].exc = "SyntaxError"
                    /\ err.tail = "..."
                    /\ err.index = t.failedAt
               ELSE IF t.state = 0
               THEN hist[N].exc = "none"
               ELSE hist[N].exc = "crash"
                       \/ (hist[N].exc = "SyntaxError" /\ err.tail = "EOF")

\* C16 witness: a read that went through a header and an assignment and
\* then met a token the table has no transition for
C16_Witness ==
    /\ LastIsRead
    /\ hist[N].exc = "SyntaxError"
    /\ err.tail = "..."
    /\ err.index >= 4
    /\ TableRun(tokens, 0, 0).failedAt = err.index
    /\ TableRun(tokens, 0, 0).state \in {1, 2, 3, 4, 5}

\* the positions of the reserved characters of the text f
ReservedPositions(f) == {p \in 1..Len(f) : reserved(f[p])}

\* the last reserved position before p, 0 when there is none
ReservedBefore(f, p) ==
    IF \E q \in ReservedPositions(f) : q < p
    THEN CHOOSE q \in ReservedPositions(f) :
            q < p /\ \A r \in ReservedPositions(f) : r < p => r <= q
    ELSE 0

\* the maximal run of non-reserved characters that ends just before p
RunBefore(f, p) == SubSeq(f, ReservedBefore(f, p) + 1, p - 1)

\* str without its leading and trailing whitespace
RECURSIVE Strip(_)
Strip(str) ==
    IF str = <<>> THEN str
    ELSE IF Head(str) \in Whitespace THEN Strip(Tail(str))
    ELSE IF str[Len(str)] \in Whitespace
         THEN Strip(SubSeq(str, 1, Len(str) - 1))
    ELSE str

\* what the text contributes at p, a reserved position or the position after
\* the end: the stripped run before p when it is not empty, then the
\* reserved character itself
Contribution(f, p) ==
    (IF Strip(RunBefore(f, p)) # <<>> THEN <<Strip(RunBefore(f, p))>>
     ELSE <<>>)
    \o (IF p <= Len(f) THEN << <<f[p]>> >> ELSE <<>>)

RECURSIVE ExpectedUpTo(_, _)
ExpectedUpTo(f, p) ==
    IF p = 0 THEN <<>>
    ELSE ExpectedUpTo(f, p - 1)
         \o (IF p \in ReservedPositions(f) \cup {Len(f) + 1}
             THEN Contribution(f, p) ELSE <<>>)

\* the tokens the text f is to give
ExpectedTokens(f) == ExpectedUpTo(f, Len(f) + 1)

IsSymbolToken(token) == Len(token) = 1 /\ reserved(token[1])

IsReservedChar(c) == reserved(c)

\* C17: the tokens of a file are its reserved characters, each as a token of
\* its own, in the order and number of the input (a newline is never
\* trimmed away), with the non-empty trimmed maximal runs of non-reserved
\* characters between them.
C17_TokensOfFile ==
    (LastIsRead /\ hist[N].present /\ hist[N].exc # "ios_failure") =>
        LET f == hist[N].file
            symbols == SelectSeq(tokens, IsSymbolToken)
            chars == SelectSeq(f, IsReservedChar)
        IN  /\ symbols = [n \in 1..Len(chars) |-> <<chars[n]>>]
            /\ Cardinality({n \in 1..Len(tokens) : tokens[n] = <<LF>>})
                 = Cardinality({p \in 1..Len(f) : f[p] = LF})
            /\ tokens = ExpectedTokens(f)

\* C17 witness: a header line and an assignment line give eight tokens
C17_Witness ==
    /\ LastIsRead
    /\ hist[N].file = <<"[", "b", "]", LF, "a", "=", "b", LF>>
    /\ tokens = << <<"[">>, <<"b">>, <<"]">>, <<LF>>,
                   <<"a">>, <<"=">>, <<"b">>, <<LF>> >>

\* C17 second case reached: a run is emitted without the whitespace around it
C17_TrimWitness ==
    /\ LastIsRead
    /\ hist[N].file = <<SP, "a", SP>>
    /\ tokens = << <<"a">> >>

\* the read ran parse() over the token buffer
Parsed == LastIsRead /\ hist[N].present /\ hist[N].exc # "ios_failure"

\* C18: every index at which parse() reads the token buffer lies in 0..n-1
\* for a buffer of n tokens, on every path, the end-of-input error included.
C18_IndicesInRange ==
    Parsed => IndicesRead(tokens) \subseteq 0..(Len(tokens) - 1)

\* C18 on the paths that stay in the loop: the section name at i-1, the key
\* at i-2 and the context at i-1 and i+1 are inside the buffer
C18_LoopIndicesInRange ==
    (Parsed /\ parse(tokens, EmptyMap).kind # "end") =>
        IndicesRead(tokens) \subseteq 0..(Len(tokens) - 1)

\* the store before the n-th operation
StoreBeforeOp(n) == IF n >= 2 THEN hist[n - 1].internal ELSE EmptyMap

\* no operator[] access so far has named an entry that was absent
NoAbsentGet ==
    \A n \in 1..N :
        hist[n].op = "get" =>
            Has(StoreBeforeOp(n), hist[n].section, hist[n].key)

\* str has no reserved character and no whitespace at either end
CleanIdentifier(str) ==
    /\ \A p \in 1..Len(str) : ~reserved(str[p])
    /\ str # <<>> => (str[1] \notin Whitespace /\ str[Len(str)] \notin Whitespace)

IsToken(str) == \E j \in 1..Len(tokens) : tokens[j] = str

\* key is followed by "=" and a newline somewhere in the token buffer
EmptyValuedAssignment(key) ==
    \E j \in 1..(Len(tokens) - 2) :
        tokens[j] = key /\ tokens[j + 1] = <<"=">> /\ tokens[j + 2] = <<LF>>

\* C19: after read() and clear() calls, with no get() of an absent entry,
\* every section name, key and value in the store has no reserved character
\* and no whitespace at either end; keys are tokens of the input, and a value
\* is a token of the input or the empty string of an empty-valued assignment.
C19_StoreHoldsIdentifiers ==
    NoAbsentGet =>
        \A s \in DOMAIN internal :
            /\ CleanIdentifier(s)
            /\ s = <<>> \/ IsToken(s)
            /\ \A k \in DOMAIN internal[s] :
                  /\ CleanIdentifier(k)
                  /\ k # <<>> /\ IsToken(k)
                  /\ CleanIdentifier(internal[s][k])
                  /\ IF internal[s][k] = <<>>
                     THEN EmptyValuedAssignment(k)
                     ELSE IsToken(internal[s][k])

\* C19 witness: a value with a space inside, read from a line with
\* whitespace around the key and the value
C19_Witness ==
    /\ NoAbsentGet
    /\ LastIsRead
    /\ <<>> \in DOMAIN internal
    /\ <<"b">> \in DOMAIN internal[<<>>]
    /\ internal[<<>>][<<"b">>] = <<"a", SP, "b">>
    /\ \E p \in 1..Len(hist[N].file) : hist[N].file[p] = TAB

\* a read() is inside its loop
InLoop == rd.active

\* what the stream has given up so far: the characters consumed
CharsConsumed == rd.pos - 1

\* one getToken() call takes a character from the stream or sets eofbit
CallMakesProgress ==
    TokenStep => (rd'.pos > rd.pos \/ "eofbit" \in in'.state)

\* C20: tokenization terminates on every finite input: each getToken() call
\* of the loop of read() consumes at least one character or observes the end
\* of the stream, which ends the loop; the loop runs at most (number of
\* characters + 1) times; and parse() is eventually reached.
C20_TokenizationTerminates ==
    /\ [](/\ rd.pos <= Len(rd.text) + 1
          /\ rd.calls <= CharsConsumed
                           + (IF "eofbit" \in in.state THEN 1 ELSE 0)
          /\ rd.calls <= Len(rd.text) + 1)
    /\ [][CallMakesProgress]_vars
    /\ (InLoop ~> (~InLoop /\ N = 1 /\ hist[N].ntokens = Len(tokens)))

\* C20 witness: a file of MaxChars reserved characters has taken one call
\* for each character and one for the end of the stream
C20_Witness ==
    /\ InLoop
    /\ Len(rd.text) = MaxChars
    /\ rd.calls = Len(rd.text) + 1
    /\ "eofbit" \in in.state

\* the read followed call by call ends as the read taken as one step does
StepwiseAgrees ==
    (~InLoop /\ N = 1) =>
        /\ tokens = Tokenize(hist[N].file, <<>>)
        /\ rd.calls = ReadLoop(hist[N].file, 1, FALSE, <<>>, 0).calls
        /\ internal = StoreOfFile(hist[N].file)
        /\ ~in.open

====
